---- MODULE Spec2Model ----
(***************************************************************************)
(* Model of principalmapper/analysis/find_risks.py: the risk rules that    *)
(* scan a Principal Mapper Graph, the single-path depth-first cycle search *)
(* (_find_cycle) and the assembly of the findings into a Report.           *)
(*                                                                         *)
(* A node is identified by its position in graph.nodes.  graph.edges maps  *)
(* a node to the destinations of its outbound edges, in the order          *)
(* get_outbound_edges yields them.                                         *)
(***************************************************************************)
EXTENDS Integers, Sequences, FiniteSets, TLC

VARIABLES graph,            \* the Graph handed to the analysis (never written)
          pc,               \* the statement the program is at
          result,           \* gen_all_findings: result
          invoked,          \* the rule functions called so far, in call order
          privesc_checked,  \* gen_privesc_findings: the nodes passed to can_privesc
          err,              \* the exception that ended the run, "none" if none
          report,           \* the Report gen_report returned
          node_index,       \* gen_circular_access_finding: position in graph.nodes
          cycles,           \* gen_circular_access_finding: cycles
          origin, current_root, current_stack, explored_nodes,   \* _find_cycle
          cycle_result      \* the value _find_cycle returned

vars == <<graph, pc, result, invoked, privesc_checked, err, report, node_index,
          cycles, origin, current_root, current_stack, explored_nodes, cycle_result>>

ruleVars == <<result, invoked, privesc_checked, err, report, node_index, cycles>>
searchVars == <<origin, current_root, current_stack, explored_nodes, cycle_result>>

(***************************************************************************)
(* Bounds of the model.                                                    *)
(***************************************************************************)
CycleNodes == 3     \* nodes of a graph searched by _find_cycle alone
CycleEdges == 4     \* edges of such a graph
WideNodes == 4      \* nodes and edges of the larger graphs searched by
WideEdges == 5      \*   _find_cycle alone
MaxOut == 3         \* outbound edges of one node
RuleNodes == 2      \* nodes of a graph given to gen_report
RuleEdges == 3      \* edges of such a graph
RulePolicies == 1   \* resource policies of such a graph
MaxPolicies == 3    \* resource policies given to the confused-deputy rule alone
ChainNodes == 3     \* nodes of a graph of plain principals given to gen_report
ChainEdges == 3     \* edges of such a graph

(***************************************************************************)
(* Sequence helpers (Python list operations).                              *)
(***************************************************************************)
Range(s) == {s[i] : i \in 1..Len(s)}

\* [x for x in s if x not in excluded]
RECURSIVE FilterOut(_, _)
FilterOut(s, excluded) ==
    IF s = <<>> THEN <<>>
    ELSE IF Head(s) \in excluded THEN FilterOut(Tail(s), excluded)
         ELSE <<Head(s)>> \o FilterOut(Tail(s), excluded)

(***************************************************************************)
(* The Graph: nodes, edges, policies, metadata.                            *)
(***************************************************************************)
NodeIds(g) == 1..Len(g.nodes)

\* The lists of j distinct nodes among 1..n: the outbound destinations of one
\* node in the order get_outbound_edges yields them.
RECURSIVE OutLists(_, _)
OutLists(n, j) ==
    IF j = 0 THEN {<<>>}
    ELSE {Append(t[1], t[2]) :
             t \in {u \in OutLists(n, j - 1) \X (1..n) : u[2] \notin Range(u[1])}}

\* The lists of at most m distinct nodes among 1..n.
OutListsUpTo(n, m) == UNION {OutLists(n, j) : j \in 0..m}

RECURSIVE SumLen(_, _)
SumLen(e, i) == IF i = 0 THEN 0 ELSE Len(e[i]) + SumLen(e, i - 1)

\* A policy document: None (null), or statements that allow one service
\* principal, unconditionally (source_account = "") or under the condition
\* aws:SourceAccount = source_account.
NullDoc == [null |-> TRUE, principal |-> "", source_account |-> ""]
Doc(principal, account) ==
    [null |-> FALSE, principal |-> principal, source_account |-> account]

AccountId == "123456789012"

SsmActions == {"ssmmessages:*", "ssm:SendCommand", "ssm:StartSession"}

\* line 136-138
SensitiveActions ==
    {"iam:CreateUser", "iam:CreateRole", "iam:CreateGroup", "iam:PutUserPolicy",
     "iam:PutRolePolicy", "iam:PutGroupPolicy", "iam:AttachUserPolicy",
     "iam:AttachRolePolicy", "iam:AttachGroupPolicy", "sts:AssumeRole"}

\* A Node: kind is the resource type in its ARN; allowed holds the actions
\* it is authorized for on '*'; nomfa the actions it may call without MFA.
Node(kind, is_admin, has_mfa, access_keys, nomfa, instance_profile, trust_policy, allowed) ==
    [kind |-> kind, is_admin |-> is_admin, has_mfa |-> has_mfa,
     access_keys |-> access_keys, nomfa |-> nomfa,
     instance_profile |-> instance_profile, trust_policy |-> trust_policy,
     allowed |-> allowed]

PlainNode == Node("user", FALSE, FALSE, 1, {}, <<>>, NullDoc, {})

\* The nodes a graph given to gen_report is made of.
NodeProfiles ==
    {PlainNode,
     \* administrative user, no MFA device, access keys usable without MFA
     Node("user", TRUE, FALSE, 1, {"iam:CreateUser"}, <<>>, NullDoc, SsmActions),
     \* role of an instance profile allowed to send SSM commands
     Node("role", FALSE, FALSE, 0, {}, <<"profile">>,
          Doc("ec2.amazonaws.com", ""), {"ssmmessages:*", "ssm:SendCommand"}),
     \* administrative role of an instance profile, assumable by Lambda
     Node("role", TRUE, FALSE, 0, {}, <<"profile">>,
          Doc("lambda.amazonaws.com", ""), SsmActions),
     \* administrative role assumable by CloudFormation
     Node("role", TRUE, FALSE, 0, {}, <<>>,
          Doc("cloudformation.amazonaws.com", ""), SsmActions),
     \* administrative role whose trust policy is null
     Node("role", TRUE, FALSE, 0, {}, <<>>, NullDoc, SsmActions)}

\* The resource policies of a graph: an S3 bucket policy or an SQS queue
\* policy that grants serverlessrepo access, with or without the
\* aws:SourceAccount condition on the account.
PolicyKinds ==
    {[service |-> sv, policy_doc |-> Doc("serverlessrepo.amazonaws.com", acct)] :
        sv \in {"s3", "sqs"}, acct \in {"", AccountId}}

PolicyLists(m) == UNION {[1..k -> PolicyKinds] : k \in 0..m}

NoCycle == [found |-> FALSE, path |-> <<>>]

NoReport == [made |-> FALSE, account |-> "", findings |-> <<>>]

(***************************************************************************)
(* _find_cycle(graph, origin)                                              *)
(***************************************************************************)
\* [x.destination for x in current_root.get_outbound_edges(graph)]
OutboundNodesReversed(g, node) ==
    SelectSeq([i \in 1..Len(g.nodes) |-> i], LAMBDA i : node \in Range(g.edges[i]))
OutboundNodes(g, node) == g.edges[node]

\* [x for x in outbound_nodes if x not in explored_nodes]
Candidates(g, node, explored) == FilterOut(OutboundNodes(g, node), Range(explored))

\* the list left by current_stack.pop()
PopStackPeek(stack) == stack
PopStack(stack) == SubSeq(stack, 1, Len(stack) - 1)

\* the value returned by current_stack.pop()
Popped(stack) == stack[Len(stack)]

\* lines 340-342
StartSearch(node) ==
    /\ origin' = node
    /\ current_root' = node
    /\ current_stack' = <<node>>
    /\ explored_nodes' = <<>>
    /\ cycle_result' = NoCycle
    /\ pc' = "find_cycle"

\* lines 346-347: the current root has no outbound edge
FindCycleDeadEnd ==
    /\ pc = "find_cycle"
    /\ Len(current_stack) > 0
    /\ OutboundNodes(graph, current_root) = <<>>
    /\ current_root' = Popped(current_stack)
    /\ current_stack' = PopStack(current_stack)
    /\ UNCHANGED <<graph, pc, origin, explored_nodes, cycle_result>>
    /\ UNCHANGED ruleVars

\* lines 349-351: an outbound edge leads back to origin
FindCycleReturn ==
    /\ pc = "find_cycle"
    /\ Len(current_stack) > 0
    /\ origin \in Range(OutboundNodes(graph, current_root))
    /\ cycle_result' = [found |-> TRUE, path |-> current_stack]
    /\ pc' = "cycle_returned"
    /\ UNCHANGED <<graph, origin, current_root, current_stack, explored_nodes>>
    /\ UNCHANGED ruleVars

\* lines 352-355: every destination is already explored
FindCycleBacktrack ==
    /\ pc = "find_cycle"
    /\ Len(current_stack) > 0
    /\ OutboundNodes(graph, current_root) # <<>>
    /\ origin \notin Range(OutboundNodes(graph, current_root))
    /\ Candidates(graph, current_root, explored_nodes) = <<>>
    /\ current_root' = Popped(current_stack)
    /\ current_stack' = PopStack(current_stack)
    /\ UNCHANGED <<graph, pc, origin, explored_nodes, cycle_result>>
    /\ UNCHANGED ruleVars

\* lines 356-359: descend into the first unexplored destination
FindCycleAdvance ==
    /\ pc = "find_cycle"
    /\ Len(current_stack) > 0
    /\ OutboundNodes(graph, current_root) # <<>>
    /\ origin \notin Range(OutboundNodes(graph, current_root))
    /\ Candidates(graph, current_root, explored_nodes) # <<>>
    /\ explored_nodes' = Append(explored_nodes, current_root)
    /\ current_root' = Head(Candidates(graph, current_root, explored_nodes))
    /\ current_stack' =
          Append(current_stack, Head(Candidates(graph, current_root, explored_nodes)))
    /\ UNCHANGED <<graph, pc, origin, cycle_result>>
    /\ UNCHANGED ruleVars

\* lines 344, 361: the stack is empty, the search returns None
FindCycleExit ==
    /\ pc = "find_cycle"
    /\ Len(current_stack) = 0
    /\ cycle_result' = NoCycle
    /\ pc' = "cycle_returned"
    /\ UNCHANGED <<graph, origin, current_root, current_stack, explored_nodes>>
    /\ UNCHANGED ruleVars

(***************************************************************************)
(* The simulator and the path finder, as the rules call them.              *)
(***************************************************************************)
\* resource_policy_authorization(service, account, policy_doc, action, arn,
\* {aws:SourceAccount: source_account}): None cannot be read as a policy; a
\* statement matches when it names the service and its condition, if any, is
\* met by the context.
ResourcePolicyAuthorization(service, policy_doc, source_account) ==
    IF policy_doc.null THEN "ERROR"
    ELSE IF /\ policy_doc.principal = service
            /\ policy_doc.source_account \in {"", source_account}
         THEN "SERVICE_MATCH"
         ELSE "NO_MATCH"

\* query_interface.local_check_authorization(node, action, '*', {})
LocalCheckAuthorization(node, action) == action \in node.allowed

\* lines 169-180
CanCallWithoutMfa(node, actions) == \E action \in actions : action \in node.nomfa

Last(s) == s[Len(s)]

\* The walks from a node collected breadth first: each walk in the list is
\* extended by the outbound edges of its last node, once per node.
RECURSIVE SearchList(_, _, _, _)
SearchList(g, walks, index, explored) ==
    IF index > Len(walks) THEN walks
    ELSE LET current == Last(walks[index])
         IN  IF current \in explored
             THEN SearchList(g, walks, index + 1, explored)
             ELSE SearchList(g,
                     walks \o [k \in 1..Len(g.edges[current]) |->
                                  Append(walks[index], g.edges[current][k])],
                     index + 1, explored \cup {current})

\* can_privesc(graph, node): the first walk of one or more edges that ends
\* at an administrative node.
CanPrivescDirect(g, node) ==
    LET toAdmin == SelectSeq(SearchList(g, <<<<node>>>>, 1, {}),
                             LAMBDA w : Len(w) = 2 /\ g.nodes[Last(w)].is_admin)
    IN  IF toAdmin = <<>> THEN [found |-> FALSE, path |-> <<>>]
        ELSE [found |-> TRUE, path |-> Head(toAdmin)]
CanPrivesc(g, node) ==
    LET toAdmin == SelectSeq(SearchList(g, <<<<node>>>>, 1, {}),
                             LAMBDA w : Len(w) > 1 /\ g.nodes[Last(w)].is_admin)
    IN  IF toAdmin = <<>> THEN [found |-> FALSE, path |-> <<>>]
        ELSE [found |-> TRUE, path |-> Head(toAdmin)]

(***************************************************************************)
(* The rules.  A Finding keeps its title, its severity and the evidence    *)
(* its description lists: node chains, one per bullet.                     *)
(***************************************************************************)
Finding(title, severity, items) ==
    [title |-> title, severity |-> severity, items |-> items]

\* the positions of graph.nodes, in order: a rule selects from them the nodes
\* that pass its test
Indexes(g) == [i \in 1..Len(g.nodes) |-> i]

Bullets(ids) == [k \in 1..Len(ids) |-> <<ids[k]>>]

IsUser(node) == node.kind = "user"
IsRole(node) == node.kind = "role"

\* lines 89-90
PrivescSkips(node) == node.is_admin

\* lines 88-93: the nodes handed to can_privesc
PrivescChecked(g) == {i \in NodeIds(g) : ~PrivescSkips(g.nodes[i])}

\* lines 82-125
GenPrivescFindings(g) ==
    LET node_path_list ==
            SelectSeq(Indexes(g),
                      LAMBDA i : i \in PrivescChecked(g) /\ CanPrivesc(g, i).found)
    IN  IF Len(node_path_list) > 0
        THEN <<Finding(IF Len(node_path_list) > 1
                       THEN "IAM Principals Can Escalate Privileges"
                       ELSE "IAM Principal Can Escalate Privileges",
                       "High",
                       [k \in 1..Len(node_path_list) |->
                           CanPrivesc(g, node_path_list[k]).path])>>
        ELSE <<>>

\* lines 410-448
GenAdminUsersWithoutMfaFinding(g) ==
    LET affected_nodes ==
            SelectSeq(Indexes(g), LAMBDA i : /\ IsUser(g.nodes[i])
                                             /\ g.nodes[i].is_admin
                                             /\ ~g.nodes[i].has_mfa)
    IN  IF Len(affected_nodes) > 0
        THEN <<Finding("IAM Users With Administrative Permissions But No MFA Device",
                       "Medium", Bullets(affected_nodes))>>
        ELSE <<>>

\* lines 128-166
GenMfaActionsFindings(g) ==
    LET affected_users ==
            SelectSeq(Indexes(g), LAMBDA i :
                /\ IsUser(g.nodes[i])
                /\ g.nodes[i].is_admin
                /\ g.nodes[i].access_keys > 0
                /\ CanCallWithoutMfa(g.nodes[i], SensitiveActions))
    IN  IF Len(affected_users) > 0
        THEN <<Finding(IF Len(affected_users) > 1
                       THEN "Administrative IAM Users Can Call Sensitive Actions Without MFA"
                       ELSE "Administrative IAM User Can Call Sensitive Actions Without MFA",
                       "Medium", Bullets(affected_users))>>
        ELSE <<>>

\* lines 222-225 and 258-262: resource_policy_authorization fails on one of
\* the administrative roles
TrustCheckRaises(g, service) ==
    \E i \in NodeIds(g) :
        /\ IsRole(g.nodes[i])
        /\ g.nodes[i].is_admin
        /\ ResourcePolicyAuthorization(service, g.nodes[i].trust_policy, "") = "ERROR"

AdminRolesTrusting(g, service) ==
    SelectSeq(Indexes(g), LAMBDA i :
        /\ IsRole(g.nodes[i])
        /\ g.nodes[i].is_admin
        /\ ResourcePolicyAuthorization(service, g.nodes[i].trust_policy, "")
              = "SERVICE_MATCH")

\* lines 217-250
GenOverprivilegedFunctionFindings(g) ==
    LET affected_roles == AdminRolesTrusting(g, "lambda.amazonaws.com")
    IN  IF Len(affected_roles) > 0
        THEN <<Finding(IF Len(affected_roles) > 1
                       THEN "IAM Roles Available to Lambda Functions Have Administrative Privileges"
                       ELSE "IAM Role Available to Lambda Functions Has Administrative Privileges",
                       "Medium", Bullets(affected_roles))>>
        ELSE <<>>

\* lines 183-214
GenOverprivilegedInstanceProfileFindings(g) ==
    LET affected_roles ==
            SelectSeq(Indexes(g), LAMBDA i :
                /\ IsRole(g.nodes[i])
                /\ g.nodes[i].is_admin
                /\ Len(g.nodes[i].instance_profile) > 0)
    IN  IF Len(affected_roles) > 0
        THEN <<Finding(IF Len(affected_roles) > 1
                       THEN "Instance Profiles Have Administrator Privileges"
                       ELSE "Instance Profile Has Administrator Privileges",
                       "High", Bullets(affected_roles))>>
        ELSE <<>>

\* lines 253-288
GenOverprivilegedStackFindings(g) ==
    LET affected_roles == AdminRolesTrusting(g, "cloudformation.amazonaws.com")
    IN  IF Len(affected_roles) > 0
        THEN <<Finding(IF Len(affected_roles) > 1
                       THEN "IAM Roles Available to CloudFormation Stacks Have Administrative Privileges"
                       ELSE "IAM Role Available to CloudFormation Stacks Has Administrative Privileges",
                       "Low", Bullets(affected_roles))>>
        ELSE <<>>

\* lines 296-302: the test a node passes to be listed by the SSM rule
\* (a user's instance_profile is None, a role's is a list)
OsLpeAffectedAnyProfile(node) ==
    /\ IsRole(node)
    /\ LocalCheckAuthorization(node, "ssmmessages:*")
    /\ \/ LocalCheckAuthorization(node, "ssm:SendCommand")
       \/ LocalCheckAuthorization(node, "ssm:StartSession")
OsLpeAffected(node) ==
    /\ IsRole(node)
    /\ Len(node.instance_profile) > 0
    /\ LocalCheckAuthorization(node, "ssmmessages:*")
    /\ \/ LocalCheckAuthorization(node, "ssm:SendCommand")
       \/ LocalCheckAuthorization(node, "ssm:StartSession")

OsLpeTitles ==
    {"IAM Roles With Unsafe SSM Permissions", "IAM Role With Unsafe SSM Permissions"}

\* lines 291-334
GenOsLpeFinding(g) ==
    LET affected_roles == SelectSeq(Indexes(g), LAMBDA i : OsLpeAffected(g.nodes[i]))
    IN  IF Len(affected_roles) > 0
        THEN <<Finding(IF Len(affected_roles) > 1
                       THEN "IAM Roles With Unsafe SSM Permissions"
                       ELSE "IAM Role With Unsafe SSM Permissions",
                       "Medium", Bullets(affected_roles))>>
        ELSE <<>>

\* lines 372-373
CircularNeverSkips(node) == FALSE
CircularSkips(node) == node.is_admin

\* lines 379-405: the finding made of the cycles found; line 396 closes every
\* printed chain with its first node
CircularFindingOpen(found) ==
    IF Len(found) > 0
    THEN <<Finding("IAM Principals with Circular Access", "Low", found)>>
    ELSE <<>>
CircularFindingPerCycle(found) ==
    [k \in 1..Len(found) |->
        Finding("IAM Principals with Circular Access", "Low",
                <<Append(found[k], found[k][1])>>)]
CircularFinding(found) ==
    IF Len(found) > 0
    THEN <<Finding("IAM Principals with Circular Access", "Low",
                   [k \in 1..Len(found) |-> Append(found[k], found[k][1])])>>
    ELSE <<>>

\* line 486: rpa_result.SERVICE_MATCH is the member SERVICE_MATCH of the
\* enumeration, whatever member rpa_result is
ServiceMatchAttribute(rpa_result) == "SERVICE_MATCH"

\* the truth value of an enumeration member
Truthy(member) == member \in {"SERVICE_MATCH", "NO_MATCH", "ERROR"}

\* lines 470-491: the S3 policies listed, each with its available actions
\* (the catalog holds one pair: serverlessrepo.amazonaws.com, s3:GetObject)
DeputyAffectedPolicies(g) ==
    SelectSeq([k \in 1..Len(g.policies) |-> k],
              LAMBDA k :
                 /\ g.policies[k].service = "s3"
                 /\ Truthy(ServiceMatchAttribute(
                       ResourcePolicyAuthorization("serverlessrepo.amazonaws.com",
                           g.policies[k].policy_doc, "000000000000"))))

\* line 478: graph.metadata['account_id'] is read once an S3 policy is met
DeputyRaises(g) ==
    /\ "account_id" \notin g.metadata
    /\ \E k \in 1..Len(g.policies) : g.policies[k].service = "s3"

\* lines 451-516
GenResourcesWithPotentialConfusedDeputies(g) ==
    LET affected_policies == DeputyAffectedPolicies(g)
    IN  IF Len(affected_policies) > 0
        THEN <<Finding("Resources With A Potential Confused-Deputy Risk", "Medium",
                       Bullets(affected_policies))>>
        ELSE <<>>

(***************************************************************************)
(* gen_all_findings and gen_report.                                        *)
(***************************************************************************)
\* result.extend(<rule>(graph)) and on to the next statement
Extend(rule, findings, next) ==
    /\ result' = result \o findings
    /\ invoked' = Append(invoked, rule)
    /\ pc' = next
    /\ err' = err

\* the rule raised: nothing catches it, the run ends
Raise(rule, exception) ==
    /\ invoked' = Append(invoked, rule)
    /\ pc' = "error"
    /\ err' = exception
    /\ result' = result

\* line 70
PrivescRule ==
    /\ pc = "gen_privesc_findings"
    /\ Extend("gen_privesc_findings", GenPrivescFindings(graph),
              "gen_admin_users_without_mfa_finding")
    /\ privesc_checked' = PrivescChecked(graph)
    /\ UNCHANGED <<graph, report, node_index, cycles>>
    /\ UNCHANGED searchVars

\* line 71
AdminUsersWithoutMfaRule ==
    /\ pc = "gen_admin_users_without_mfa_finding"
    /\ Extend("gen_admin_users_without_mfa_finding",
              GenAdminUsersWithoutMfaFinding(graph), "gen_mfa_actions_findings")
    /\ UNCHANGED <<graph, privesc_checked, report, node_index, cycles>>
    /\ UNCHANGED searchVars

\* line 72
MfaActionsRule ==
    /\ pc = "gen_mfa_actions_findings"
    /\ Extend("gen_mfa_actions_findings", GenMfaActionsFindings(graph),
              "gen_overprivileged_function_findings")
    /\ UNCHANGED <<graph, privesc_checked, report, node_index, cycles>>
    /\ UNCHANGED searchVars

\* line 74
OverprivilegedFunctionRule ==
    /\ pc = "gen_overprivileged_function_findings"
    /\ ~TrustCheckRaises(graph, "lambda.amazonaws.com")
    /\ Extend("gen_overprivileged_function_findings",
              GenOverprivilegedFunctionFindings(graph),
              "gen_overprivileged_instance_profile_findings")
    /\ UNCHANGED <<graph, privesc_checked, report, node_index, cycles>>
    /\ UNCHANGED searchVars

\* line 74, the rule raising
OverprivilegedFunctionRuleRaises ==
    /\ pc = "gen_overprivileged_function_findings"
    /\ TrustCheckRaises(graph, "lambda.amazonaws.com")
    /\ Raise("gen_overprivileged_function_findings", "TypeError")
    /\ UNCHANGED <<graph, privesc_checked, report, node_index, cycles>>
    /\ UNCHANGED searchVars

\* line 75
OverprivilegedInstanceProfileRule ==
    /\ pc = "gen_overprivileged_instance_profile_findings"
    /\ Extend("gen_overprivileged_instance_profile_findings",
              GenOverprivilegedInstanceProfileFindings(graph),
              "gen_overprivileged_stack_findings")
    /\ UNCHANGED <<graph, privesc_checked, report, node_index, cycles>>
    /\ UNCHANGED searchVars

\* line 76 (a null trust policy has already ended the run at line 74)
OverprivilegedStackRule ==
    /\ pc = "gen_overprivileged_stack_findings"
    /\ IF TrustCheckRaises(graph, "cloudformation.amazonaws.com")
       THEN Raise("gen_overprivileged_stack_findings", "TypeError")
       ELSE Extend("gen_overprivileged_stack_findings",
                   GenOverprivilegedStackFindings(graph), "gen_os_lpe_finding")
    /\ UNCHANGED <<graph, privesc_checked, report, node_index, cycles>>
    /\ UNCHANGED searchVars

\* line 77
OsLpeRule ==
    /\ pc = "gen_os_lpe_finding"
    /\ Extend("gen_os_lpe_finding", GenOsLpeFinding(graph),
              "gen_circular_access_finding")
    /\ UNCHANGED <<graph, privesc_checked, report, node_index, cycles>>
    /\ UNCHANGED searchVars

\* line 78, lines 368-369: gen_circular_access_finding is entered
CircularEnter ==
    /\ pc = "gen_circular_access_finding"
    /\ invoked' = Append(invoked, "gen_circular_access_finding")
    /\ cycles' = <<>>
    /\ node_index' = 1
    /\ pc' = "circular_loop"
    /\ UNCHANGED <<graph, result, privesc_checked, err, report>>
    /\ UNCHANGED searchVars

\* lines 371-373: an administrative node is passed over
CircularSkipAdmin ==
    /\ pc = "circular_loop"
    /\ node_index <= Len(graph.nodes)
    /\ CircularSkips(graph.nodes[node_index])
    /\ node_index' = node_index + 1
    /\ UNCHANGED <<graph, pc, result, invoked, privesc_checked, err, report, cycles>>
    /\ UNCHANGED searchVars

\* line 375: _find_cycle(graph, node) is called
CircularSearch ==
    /\ pc = "circular_loop"
    /\ node_index <= Len(graph.nodes)
    /\ ~CircularSkips(graph.nodes[node_index])
    /\ StartSearch(node_index)
    /\ UNCHANGED graph
    /\ UNCHANGED ruleVars

\* lines 376-377: the value returned is kept unless it is None
CircularCollect ==
    /\ pc = "cycle_returned"
    /\ cycles' = IF cycle_result.found THEN Append(cycles, cycle_result.path)
                 ELSE cycles
    /\ node_index' = node_index + 1
    /\ pc' = "circular_loop"
    /\ UNCHANGED <<graph, result, invoked, privesc_checked, err, report>>
    /\ UNCHANGED searchVars

\* lines 379-407, line 78: the finding is built and joins result
CircularFinish ==
    /\ pc = "circular_loop"
    /\ node_index > Len(graph.nodes)
    /\ result' = result \o CircularFinding(cycles)
    /\ pc' = "make_report"
    /\ UNCHANGED <<graph, invoked, privesc_checked, err, report, node_index, cycles>>
    /\ UNCHANGED searchVars

\* line 58: graph.metadata['account_id']
AccountLookupDefault(g) == [ok |-> TRUE, value |-> ""]
AccountLookup(g) ==
    IF "account_id" \in g.metadata THEN [ok |-> TRUE, value |-> AccountId]
    ELSE [ok |-> FALSE, value |-> ""]

\* lines 57-64: the Report is built from the findings and the metadata
MakeReport ==
    /\ pc = "make_report"
    /\ AccountLookup(graph).ok
    /\ report' = [made |-> TRUE, account |-> AccountLookup(graph).value,
                  findings |-> result]
    /\ pc' = "done"
    /\ UNCHANGED <<graph, result, invoked, privesc_checked, err, node_index, cycles>>
    /\ UNCHANGED searchVars

\* line 58: the metadata holds no account_id, the lookup raises KeyError
MakeReportRaises ==
    /\ pc = "make_report"
    /\ ~AccountLookup(graph).ok
    /\ pc' = "error"
    /\ err' = "KeyError"
    /\ UNCHANGED <<graph, result, invoked, privesc_checked, report, node_index, cycles>>
    /\ UNCHANGED searchVars

\* lines 519-548: the lines print_report prints for a report, each line the
\* list of its pieces; the date line depends on the clock and is left out
PrintReportFindingsOnly(rep) ==
    [k \in 1..Len(rep.findings) |->
        <<"##", rep.findings[k].title, "### Severity", rep.findings[k].severity>>]
PrintReport(rep) ==
    <<<<"----------------------------------------------------------------">>,
      <<"# Principal Mapper Findings">>,
      <<"Findings identified in AWS account", rep.account>>>>
    \o (IF Len(rep.findings) = 0
        THEN <<<<"None found.">>>>
        ELSE [k \in 1..Len(rep.findings) |->
                 <<"##", rep.findings[k].title,
                   "### Severity", rep.findings[k].severity>>])
    \o <<<<"----------------------------------------------------------------">>>>

\* gen_resources_with_potential_confused_deputies(graph), called on its own
ConfusedDeputyRule ==
    /\ pc = "gen_resources_with_potential_confused_deputies"
    /\ IF DeputyRaises(graph)
       THEN Raise("gen_resources_with_potential_confused_deputies", "KeyError")
       ELSE Extend("gen_resources_with_potential_confused_deputies",
                   GenResourcesWithPotentialConfusedDeputies(graph), "returned")
    /\ UNCHANGED <<graph, privesc_checked, report, node_index, cycles>>
    /\ UNCHANGED searchVars

(***************************************************************************)
(* SpecCycle, SpecCycleWide: _find_cycle called on any graph and origin.   *)
(***************************************************************************)
EdgeBound(n, k) == IF MaxOut < k THEN (IF MaxOut < n THEN MaxOut ELSE n)
                   ELSE (IF k < n THEN k ELSE n)

CycleGraph(n, e) ==
    [nodes |-> [i \in 1..n |-> PlainNode], edges |-> e,
     policies |-> <<>>, metadata |-> {"account_id"}]

IdleRule ==
    /\ result = <<>>
    /\ invoked = <<>>
    /\ privesc_checked = {}
    /\ err = "none"
    /\ report = NoReport
    /\ node_index = 1
    /\ cycles = <<>>

\* _find_cycle is entered with a graph of at most n nodes and k edges
SearchInit(n_max, k_max) ==
    /\ \E n \in 1..n_max :
          \E e \in [1..n -> OutListsUpTo(n, EdgeBound(n, k_max))] :
             /\ SumLen(e, n) <= k_max
             /\ graph = CycleGraph(n, e)
    /\ origin \in NodeIds(graph)
    /\ current_root = origin
    /\ current_stack = <<origin>>
    /\ explored_nodes = <<>>
    /\ cycle_result = NoCycle
    /\ pc = "find_cycle"
    /\ IdleRule

InitCycle == SearchInit(CycleNodes, CycleEdges)

InitCycleWide == SearchInit(WideNodes, WideEdges)

NextCycle ==
    \/ FindCycleDeadEnd
    \/ FindCycleReturn
    \/ FindCycleBacktrack
    \/ FindCycleAdvance
    \/ FindCycleExit

SpecCycle == InitCycle /\ [][NextCycle]_vars

FairSpecCycle == SpecCycle /\ WF_vars(NextCycle)

SpecCycleWide == InitCycleWide /\ [][NextCycle]_vars

(***************************************************************************)
(* Spec: gen_report called on any graph without resource policies;        *)
(* SpecPolicies: on any graph with resource policies.                      *)
(***************************************************************************)
IdleSearch ==
    /\ origin = 1
    /\ current_root = 1
    /\ current_stack = <<>>
    /\ explored_nodes = <<>>
    /\ cycle_result = NoCycle

\* gen_report is entered with a graph whose policies are one of the lists
ReportInit(policy_lists) ==
    /\ \E n \in 1..RuleNodes :
          \E e \in [1..n -> OutListsUpTo(n, EdgeBound(n, RuleEdges))] :
             /\ SumLen(e, n) <= RuleEdges
             /\ \E ns \in [1..n -> NodeProfiles] :
                   \E ps \in policy_lists :
                      \E md \in {{}, {"account_id"}} :
                         graph = [nodes |-> ns, edges |-> e, policies |-> ps,
                                  metadata |-> md]
    /\ pc = "gen_privesc_findings"
    /\ IdleRule
    /\ IdleSearch

\* gen_all_findings reads no resource policy: the graph has none
Init == ReportInit({<<>>})

InitPolicies == ReportInit(PolicyLists(RulePolicies))

Next ==
    \/ PrivescRule
    \/ AdminUsersWithoutMfaRule
    \/ MfaActionsRule
    \/ OverprivilegedFunctionRule
    \/ OverprivilegedFunctionRuleRaises
    \/ OverprivilegedInstanceProfileRule
    \/ OverprivilegedStackRule
    \/ OsLpeRule
    \/ CircularEnter
    \/ CircularSkipAdmin
    \/ CircularSearch
    \/ FindCycleDeadEnd
    \/ FindCycleReturn
    \/ FindCycleBacktrack
    \/ FindCycleAdvance
    \/ FindCycleExit
    \/ CircularCollect
    \/ CircularFinish
    \/ MakeReport
    \/ MakeReportRaises

Spec == Init /\ [][Next]_vars

SpecPolicies == InitPolicies /\ [][Next]_vars

(***************************************************************************)
(* SpecChain: gen_report called on longer chains of users: a node is a     *)
(* plain user or an administrative user with an MFA device and no access   *)
(* key.  No node is a role, so no trust policy is evaluated, and the       *)
(* metadata holds the account id.                                          *)
(***************************************************************************)
ChainProfiles ==
    {PlainNode,
     Node("user", TRUE, TRUE, 0, {}, <<>>, NullDoc, {})}

InitChain ==
    /\ \E n \in 1..ChainNodes :
          \E e \in [1..n -> OutListsUpTo(n, EdgeBound(n, ChainEdges))] :
             /\ SumLen(e, n) <= ChainEdges
             /\ \E ns \in [1..n -> ChainProfiles] :
                   graph = [nodes |-> ns, edges |-> e, policies |-> <<>>,
                            metadata |-> {"account_id"}]
    /\ pc = "gen_privesc_findings"
    /\ IdleRule
    /\ IdleSearch

\* gen_report on such a graph: lines 222-225 call
\* resource_policy_authorization for no node and line 58 finds account_id,
\* so neither raises
NextChain ==
    \/ PrivescRule
    \/ AdminUsersWithoutMfaRule
    \/ MfaActionsRule
    \/ OverprivilegedFunctionRule
    \/ OverprivilegedInstanceProfileRule
    \/ OverprivilegedStackRule
    \/ OsLpeRule
    \/ CircularEnter
    \/ CircularSkipAdmin
    \/ CircularSearch
    \/ FindCycleDeadEnd
    \/ FindCycleReturn
    \/ FindCycleBacktrack
    \/ FindCycleAdvance
    \/ FindCycleExit
    \/ CircularCollect
    \/ CircularFinish
    \/ MakeReport

SpecChain == InitChain /\ [][NextChain]_vars

(***************************************************************************)
(* SpecDeputy: the confused-deputy rule called on any list of policies.    *)
(***************************************************************************)
InitDeputy ==
    /\ \E ps \in PolicyLists(MaxPolicies) :
          \E md \in {{}, {"account_id"}} :
             graph = [nodes |-> <<PlainNode>>, edges |-> <<<<>>>>, policies |-> ps,
                      metadata |-> md]
    /\ pc = "gen_resources_with_potential_confused_deputies"
    /\ IdleRule
    /\ IdleSearch

NextDeputy == ConfusedDeputyRule

SpecDeputy == InitDeputy /\ [][NextDeputy]_vars

(***************************************************************************)
(* Properties of _find_cycle.                                              *)
(***************************************************************************)
HasEdge(g, a, b) == b \in Range(g.edges[a])

\* p is a closed walk of g from node a back to a
IsCycleFrom(g, a, p) ==
    /\ Len(p) > 0
    /\ p[1] = a
    /\ \A i \in 1..(Len(p) - 1) : HasEdge(g, p[i], p[i + 1])
    /\ HasEdge(g, p[Len(p)], a)

Distinct(s) == \A i, j \in 1..Len(s) : i # j => s[i] # s[j]

SearchReturnedList == pc = "cycle_returned" /\ cycle_result.found

\* C1: a list returned by the cycle search for origin is a path
\* origin -> ... -> origin of the graph: it starts at origin, consecutive
\* elements are joined by an edge, and the last element has an edge to origin.
C1_ReturnedListIsCycle ==
    SearchReturnedList => IsCycleFrom(graph, origin, cycle_result.path)

\* C2: a list returned by the cycle search starts at origin and holds no
\* node twice.
C2_ReturnedListDistinct ==
    SearchReturnedList =>
        (cycle_result.path[1] = origin /\ Distinct(cycle_result.path))

\* C3: the cycle search terminates on every graph and origin: it returns the
\* stack or leaves the loop with an empty stack and returns None.
C3_SearchTerminates == <>(pc = "cycle_returned")

\* a search that ended with None after it had backtracked and expanded a node
\* again, on a graph with a self-loop
C3_Witness ==
    /\ pc = "cycle_returned"
    /\ ~cycle_result.found
    /\ current_stack = <<>>
    /\ ~Distinct(explored_nodes)
    /\ \E n \in NodeIds(graph) : HasEdge(graph, n, n)

(***************************************************************************)
(* Properties of the rules and of the report.                              *)
(***************************************************************************)
IsAdmin(i) == graph.nodes[i].is_admin

PrivescTitles ==
    {"IAM Principals Can Escalate Privileges", "IAM Principal Can Escalate Privileges"}

CircularTitle == "IAM Principals with Circular Access"

\* the chains listed by the findings of result that carry one of the titles
ChainsOf(findings, titles) ==
    UNION {Range(findings[k].items) :
              k \in {j \in 1..Len(findings) : findings[j].title \in titles}}

\* C4: no administrative node is the origin of an escalation search or of a
\* cycle search: can_privesc and _find_cycle are called on non-admin nodes
\* only, and no reported escalation chain or cycle starts at an admin node.
C4_NoAdminOrigin ==
    /\ \A i \in privesc_checked : ~IsAdmin(i)
    /\ pc \in {"find_cycle", "cycle_returned"} => ~IsAdmin(origin)
    /\ \A k \in 1..Len(cycles) : ~IsAdmin(cycles[k][1])
    /\ \A c \in ChainsOf(result, PrivescTitles \cup {CircularTitle}) : ~IsAdmin(c[1])

\* a finished report on a graph with an administrative node, holding an
\* escalation chain and a cycle
C4_Witness ==
    /\ pc = "done"
    /\ \E i \in NodeIds(graph) : IsAdmin(i)
    /\ ChainsOf(report.findings, PrivescTitles) # {}
    /\ ChainsOf(report.findings, {CircularTitle}) # {}

\* C5: every chain listed in the circular-access finding consists of
\* non-admin nodes only, at every position.
C5_CyclesHoldNoAdmin ==
    \A c \in ChainsOf(result, {CircularTitle}) : \A j \in 1..Len(c) : ~IsAdmin(c[j])

\* the policies the confused-deputy finding of result lists
DeputyListed ==
    {c[1] : c \in ChainsOf(result, {"Resources With A Potential Confused-Deputy Risk"})}

\* C6: the confused-deputy rule lists a policy exactly when it is an S3
\* policy whose evaluation for serverlessrepo.amazonaws.com and s3:GetObject
\* with aws:SourceAccount = '000000000000' yields SERVICE_MATCH.
C6_DeputyListsServiceMatches ==
    pc = "returned" =>
        \A k \in 1..Len(graph.policies) :
            k \in DeputyListed <=>
                /\ graph.policies[k].service = "s3"
                /\ ResourcePolicyAuthorization("serverlessrepo.amazonaws.com",
                       graph.policies[k].policy_doc, "000000000000") = "SERVICE_MATCH"

GenAllFindingsReturned == pc \in {"make_report", "done"} \/ err = "KeyError"

\* C7: the list gen_all_findings returns is the concatenation, in the fixed
\* rule order, of the outputs of all nine rules of the catalog, the
\* confused-deputy check included.
C7_AllRulesConcatenated ==
    GenAllFindingsReturned =>
        result = GenPrivescFindings(graph)
                 \o GenAdminUsersWithoutMfaFinding(graph)
                 \o GenMfaActionsFindings(graph)
                 \o GenOverprivilegedFunctionFindings(graph)
                 \o GenOverprivilegedInstanceProfileFindings(graph)
                 \o GenOverprivilegedStackFindings(graph)
                 \o GenOsLpeFinding(graph)
                 \o CircularFinding(cycles)
                 \o GenResourcesWithPotentialConfusedDeputies(graph)

NoAccountId == "account_id" \notin graph.metadata

\* C8 as stated: without an account identifier gen_report aborts before any
\* rule executes: no rule function is invoked, no search is run and no
\* Report is produced.
C8_AbortsBeforeAnyRule ==
    NoAccountId =>
        /\ invoked = <<>>
        /\ privesc_checked = {}
        /\ pc \notin {"find_cycle", "cycle_returned"}
        /\ ~report.made

\* C8, amended: without an account identifier gen_report produces no Report:
\* it never completes, and when the lookup of account_id raises, every rule
\* of gen_all_findings has already been invoked.
C8_NoReportWithoutAccountId ==
    NoAccountId =>
        /\ ~report.made
        /\ pc # "done"
        /\ err = "KeyError" =>
              /\ pc = "error"
              /\ Len(invoked) = 8

\* the lookup raised after the rules had produced findings
C8_Witness ==
    /\ NoAccountId
    /\ pc = "error"
    /\ err = "KeyError"
    /\ Len(invoked) = 8
    /\ result # <<>>

\* C9: a rule that raises does not stop the others: gen_all_findings still
\* completes, every rule is invoked, and the result holds the findings of
\* the other rules in order, as if the failing rule had returned nothing.
C9_RuleFailureIsolated ==
    (/\ TrustCheckRaises(graph, "lambda.amazonaws.com")
     /\ pc \in {"done", "error"}) =>
        /\ Len(invoked) = 8
        /\ err # "TypeError"
        /\ result = GenPrivescFindings(graph)
                    \o GenAdminUsersWithoutMfaFinding(graph)
                    \o GenMfaActionsFindings(graph)
                    \o GenOverprivilegedInstanceProfileFindings(graph)
                    \o GenOsLpeFinding(graph)
                    \o CircularFinding(cycles)

\* the nodes the SSM finding of result lists
OsLpeListed == {c[1] : c \in ChainsOf(result, OsLpeTitles)}

HasSsmPermissions(node) ==
    /\ "ssmmessages:*" \in node.allowed
    /\ \/ "ssm:SendCommand" \in node.allowed
       \/ "ssm:StartSession" \in node.allowed

\* C10 as stated: a node named in the 'Unsafe SSM Permissions' finding is an
\* administrative role attached to an instance profile and authorized for
\* ssmmessages:* with ssm:SendCommand or ssm:StartSession.
C10_OsLpeListsAdminRolesOnly ==
    \A i \in OsLpeListed :
        /\ graph.nodes[i].kind = "role"
        /\ graph.nodes[i].is_admin
        /\ Len(graph.nodes[i].instance_profile) > 0
        /\ HasSsmPermissions(graph.nodes[i])

\* C10, amended: a node named in the 'Unsafe SSM Permissions' finding is a
\* role attached to an instance profile and authorized for ssmmessages:*
\* with ssm:SendCommand or ssm:StartSession; is_admin is not consulted.
C10_OsLpeListsProfiledSsmRoles ==
    \A i \in OsLpeListed :
        /\ graph.nodes[i].kind = "role"
        /\ Len(graph.nodes[i].instance_profile) > 0
        /\ HasSsmPermissions(graph.nodes[i])

\* the finding lists a non-admin role, and an administrative role without
\* instance profile is left out
C10_Witness ==
    /\ \E i \in OsLpeListed : ~IsAdmin(i)
    /\ \E i \in NodeIds(graph) \ OsLpeListed :
          graph.nodes[i].kind = "role" /\ IsAdmin(i)

(***************************************************************************)
(* Properties of the privilege-escalation rule.                            *)
(***************************************************************************)
\* the nodes reached from the nodes of S by zero or more edges
RECURSIVE ReachSet(_, _)
ReachSet(g, S) ==
    LET T == S \cup UNION {Range(g.edges[a]) : a \in S}
    IN  IF T = S THEN S ELSE ReachSet(g, T)

\* the nodes reached from a by one or more edges
ReachableByEdges(g, a) == ReachSet(g, Range(g.edges[a]))

CanReachAdmin(g, a) == \E b \in ReachableByEdges(g, a) : g.nodes[b].is_admin

\* c is a walk of g over one or more edges
IsEdgeChain(g, c) ==
    /\ Len(c) > 1
    /\ \A i \in 1..(Len(c) - 1) : HasEdge(g, c[i], c[i + 1])

PrivescFindings == SelectSeq(result, LAMBDA f : f.title \in PrivescTitles)

PrivescExpected == {i \in NodeIds(graph) : ~IsAdmin(i) /\ CanReachAdmin(graph, i)}

\* C11: when the privilege-escalation rule has returned, the nodes it lists are
\* exactly the non-admin nodes from which an admin node is reached through
\* one or more edges (a node without outbound edges is never listed, a node
\* with an edge to an admin is); when a node is listed there is exactly one
\* finding, of severity High, with one chain per listed node, each a
\* non-empty chain of edges from that node that ends at an admin node.
C11_PrivescListsReachAdmin ==
    pc = "gen_admin_users_without_mfa_finding" =>
        /\ {c[1] : c \in ChainsOf(result, PrivescTitles)} = PrivescExpected
        /\ Len(PrivescFindings) = (IF PrivescExpected = {} THEN 0 ELSE 1)
        /\ \A k \in 1..Len(PrivescFindings) :
              /\ PrivescFindings[k].severity = "High"
              /\ Len(PrivescFindings[k].items) = Cardinality(PrivescExpected)
        /\ \A c \in ChainsOf(result, PrivescTitles) :
              /\ IsEdgeChain(graph, c)
              /\ IsAdmin(Last(c))
        /\ \A i \in NodeIds(graph) :
              graph.edges[i] = <<>> =>
                 i \notin {c[1] : c \in ChainsOf(result, PrivescTitles)}

\* the rule has returned a finding that lists a node two edges away from
\* the admin node and the node between them
C11_Witness ==
    /\ pc = "gen_admin_users_without_mfa_finding"
    /\ Len(PrivescFindings) = 1
    /\ \E c \in ChainsOf(result, PrivescTitles) :
          /\ Len(c) = 3
          /\ ~HasEdge(graph, c[1], c[3])
          /\ <<c[2], c[3]>> \in ChainsOf(result, PrivescTitles)

(***************************************************************************)
(* Properties shared by the rules of gen_all_findings.                     *)
(***************************************************************************)
RuleNames ==
    {"gen_privesc_findings", "gen_admin_users_without_mfa_finding",
     "gen_mfa_actions_findings", "gen_overprivileged_function_findings",
     "gen_overprivileged_instance_profile_findings",
     "gen_overprivileged_stack_findings", "gen_os_lpe_finding",
     "gen_circular_access_finding"}

\* the titles a rule gives its finding (one principal, several principals)
TitlesOf(rule) ==
    CASE rule = "gen_privesc_findings" -> PrivescTitles
      [] rule = "gen_admin_users_without_mfa_finding" ->
            {"IAM Users With Administrative Permissions But No MFA Device"}
      [] rule = "gen_mfa_actions_findings" ->
            {"Administrative IAM Users Can Call Sensitive Actions Without MFA",
             "Administrative IAM User Can Call Sensitive Actions Without MFA"}
      [] rule = "gen_overprivileged_function_findings" ->
            {"IAM Roles Available to Lambda Functions Have Administrative Privileges",
             "IAM Role Available to Lambda Functions Has Administrative Privileges"}
      [] rule = "gen_overprivileged_instance_profile_findings" ->
            {"Instance Profiles Have Administrator Privileges",
             "Instance Profile Has Administrator Privileges"}
      [] rule = "gen_overprivileged_stack_findings" ->
            {"IAM Roles Available to CloudFormation Stacks Have Administrative Privileges",
             "IAM Role Available to CloudFormation Stacks Has Administrative Privileges"}
      [] rule = "gen_os_lpe_finding" -> OsLpeTitles
      [] rule = "gen_circular_access_finding" -> {CircularTitle}

\* the principals (or cycles) a rule has to report on the graph
AffectedBy(rule) ==
    CASE rule = "gen_privesc_findings" -> PrivescExpected
      [] rule = "gen_admin_users_without_mfa_finding" ->
            {i \in NodeIds(graph) : /\ IsUser(graph.nodes[i])
                                    /\ IsAdmin(i)
                                    /\ ~graph.nodes[i].has_mfa}
      [] rule = "gen_mfa_actions_findings" ->
            {i \in NodeIds(graph) :
                /\ IsUser(graph.nodes[i])
                /\ IsAdmin(i)
                /\ graph.nodes[i].access_keys > 0
                /\ graph.nodes[i].nomfa \cap SensitiveActions # {}}
      [] rule = "gen_overprivileged_function_findings" ->
            Range(AdminRolesTrusting(graph, "lambda.amazonaws.com"))
      [] rule = "gen_overprivileged_instance_profile_findings" ->
            {i \in NodeIds(graph) : /\ IsRole(graph.nodes[i])
                                    /\ IsAdmin(i)
                                    /\ graph.nodes[i].instance_profile # <<>>}
      [] rule = "gen_overprivileged_stack_findings" ->
            Range(AdminRolesTrusting(graph, "cloudformation.amazonaws.com"))
      [] rule = "gen_os_lpe_finding" ->
            {i \in NodeIds(graph) : /\ IsRole(graph.nodes[i])
                                    /\ graph.nodes[i].instance_profile # <<>>
                                    /\ HasSsmPermissions(graph.nodes[i])}
      [] rule = "gen_circular_access_finding" -> {k \in 1..Len(cycles) : TRUE}

FindingsOf(rule) == SelectSeq(result, LAMBDA f : f.title \in TitlesOf(rule))

\* the rule was called by gen_all_findings and has returned its list
RuleReturned(rule) ==
    /\ rule \in Range(invoked)
    /\ ~(pc = "error" /\ err = "TypeError" /\ rule = Last(invoked))
    /\ rule = "gen_circular_access_finding" =>
          (pc \in {"make_report", "done"} \/ (pc = "error" /\ err = "KeyError"))

\* C12: every rule that returns contributes exactly one finding when the set
\* of principals (or cycles) it has to report is not empty and none when it
\* is empty, however large the set; so result never holds more findings
\* than rules were run, never two findings of one rule, and never a finding
\* that lists nothing.  The counts are read when gen_all_findings has ended.
C12_ZeroOrOneFindingPerRule ==
    /\ Len(result) <= Len(invoked)
    /\ \A j, k \in 1..Len(result) : j # k => result[j].title # result[k].title
    /\ \A k \in 1..Len(result) : result[k].items # <<>>
    /\ pc \in {"make_report", "done", "error"} =>
          \A rule \in RuleNames :
             LET found == FindingsOf(rule)
                 affected == AffectedBy(rule)
             IN  /\ Len(found) <= 1
                 /\ RuleReturned(rule) =>
                       (Len(found) = (IF affected = {} THEN 0 ELSE 1))
                 /\ \A k \in 1..Len(found) :
                       Len(found[k].items) = Cardinality(affected)
                 /\ rule \notin Range(invoked) => found = <<>>

\* a finished report in which one rule lists two principals in its one
\* finding, another rule lists two cycles in its one finding, and a third
\* rule found nothing
C12_Witness ==
    /\ pc = "done"
    /\ \E rule \in RuleNames \ {"gen_circular_access_finding"} :
          /\ Cardinality(AffectedBy(rule)) = 2
          /\ Len(FindingsOf(rule)) = 1
    /\ Len(cycles) = 2
    /\ Len(FindingsOf("gen_circular_access_finding")) = 1
    /\ \E rule \in RuleNames : AffectedBy(rule) = {} /\ FindingsOf(rule) = <<>>

(***************************************************************************)
(* Properties of the circular-access rule on a simple cycle.               *)
(***************************************************************************)
NonAdmins(g) == {i \in NodeIds(g) : ~g.nodes[i].is_admin}

\* the non-admin nodes of g form one directed cycle and each of them has
\* the edge of that cycle as its only outbound edge
SimpleCycleGraph(g) ==
    /\ NonAdmins(g) # {}
    /\ \A i \in NonAdmins(g) : Len(g.edges[i]) = 1
    /\ \A i \in NonAdmins(g) : ReachableByEdges(g, i) = NonAdmins(g)

\* the n nodes met from a by following the only outbound edge of each
RECURSIVE FollowEdges(_, _, _)
FollowEdges(g, a, n) ==
    IF n = 0 THEN <<>> ELSE <<a>> \o FollowEdges(g, g.edges[a][1], n - 1)

WholeCycleFrom(g, a) == FollowEdges(g, a, Cardinality(NonAdmins(g)))

\* C13: on a graph whose non-admin nodes form a simple directed cycle, each
\* with that one outbound edge, the cycle search from a node of the cycle
\* returns the whole cycle in edge order starting at that node, and the
\* circular-access rule returns exactly one finding, of severity Low, whose
\* chains include, for every node of the cycle, the cycle from that node
\* back to it (A -> B -> C -> A).
C13_SimpleCycleReported ==
    SimpleCycleGraph(graph) =>
        /\ pc = "cycle_returned" =>
              cycle_result = [found |-> TRUE, path |-> WholeCycleFrom(graph, origin)]
        /\ \A k \in 1..Len(cycles) : cycles[k] = WholeCycleFrom(graph, cycles[k][1])
        /\ RuleReturned("gen_circular_access_finding") =>
              /\ Len(FindingsOf("gen_circular_access_finding")) = 1
              /\ FindingsOf("gen_circular_access_finding")[1].severity = "Low"
              /\ \A i \in NonAdmins(graph) :
                    Append(WholeCycleFrom(graph, i), i)
                       \in ChainsOf(result, {CircularTitle})

\* a finished report on the graph A -> B, B -> C, C -> A of three non-admin
\* nodes, whose circular-access finding holds the chain A -> B -> C -> A
C13_Witness ==
    /\ pc = "done"
    /\ NonAdmins(graph) = {1, 2, 3}
    /\ graph.edges = <<<<2>>, <<3>>, <<1>>>>
    /\ Len(report.findings) = 1
    /\ <<1, 2, 3, 1>> \in ChainsOf(report.findings, {CircularTitle})

(***************************************************************************)
(* Properties of the report on a graph of one node.                        *)
(***************************************************************************)
\* the graph is a single non-admin node without edges
SingleNonAdminNode ==
    /\ Len(graph.nodes) = 1
    /\ ~IsAdmin(1)
    /\ graph.edges[1] = <<>>

PrintsNoneFound(rep) == <<"None found.">> \in Range(PrintReport(rep))

\* C14 as stated: on a graph of a single non-admin node and no edges,
\* gen_all_findings returns an empty list whatever the node's attributes,
\* and the printed report says "None found."
C14_SingleNodeNoFindings ==
    (SingleNonAdminNode /\ pc \in {"make_report", "done"}) =>
        /\ result = <<>>
        /\ report.made => PrintsNoneFound(report)

\* C14 as the code has it: on such a graph gen_all_findings returns an empty
\* list unless the node is a role attached to an instance profile with the
\* SSM permissions, which the SSM rule lists in one Medium finding; the
\* printed report says "None found." exactly when the list is empty.
C14_SingleNodeOnlySsmFinding ==
    (SingleNonAdminNode /\ pc \in {"make_report", "done"}) =>
        /\ IF /\ IsRole(graph.nodes[1])
              /\ graph.nodes[1].instance_profile # <<>>
              /\ HasSsmPermissions(graph.nodes[1])
           THEN result = <<Finding("IAM Role With Unsafe SSM Permissions",
                                   "Medium", <<<<1>>>>)>>
           ELSE result = <<>>
        /\ report.made =>
              /\ report.findings = result
              /\ PrintsNoneFound(report) <=> (report.findings = <<>>)

\* a finished report on a single non-admin role with an instance profile and
\* the SSM permissions: one finding, and no "None found." line
C14_Witness ==
    /\ pc = "done"
    /\ SingleNonAdminNode
    /\ IsRole(graph.nodes[1])
    /\ Len(report.findings) = 1
    /\ ~PrintsNoneFound(report)

(***************************************************************************)
(* Soundness of _find_cycle.                                               *)
(***************************************************************************)
\* origin and the nodes reached from it by edges
ReachedFromOrigin == {origin} \cup ReachableByEdges(graph, origin)

OnCycle(g, a) == a \in ReachableByEdges(g, a)

\* C15: a list returned by the cycle search means origin lies on a directed
\* cycle: the search returns while the current node is the top of the stack,
\* the last node of the list has an outbound edge to origin and was reached
\* from origin by edges, as was every node the search visits; when origin
\* lies on no cycle the search returns None.
C15_ReturnedListSound ==
    /\ pc \in {"find_cycle", "cycle_returned"} =>
          /\ current_root \in ReachedFromOrigin
          /\ Range(current_stack) \subseteq ReachedFromOrigin
    /\ SearchReturnedList =>
          /\ OnCycle(graph, origin)
          /\ current_root = Last(cycle_result.path)
          /\ HasEdge(graph, Last(cycle_result.path), origin)
          /\ Last(cycle_result.path) \in ReachedFromOrigin
    /\ (pc = "cycle_returned" /\ ~OnCycle(graph, origin)) => ~cycle_result.found

\* a search that returned after it had backtracked, with a list that is not
\* itself a path of the graph
C15_Witness ==
    /\ SearchReturnedList
    /\ ~IsCycleFrom(graph, origin, cycle_result.path)
    /\ Distinct(cycle_result.path)
    /\ OnCycle(graph, origin)
====
